---- MODULE Spec2Model ----
(***************************************************************************)
(* The 4x4 Connect-Four engine (src/utils/connect_four.rs) and the session *)
(* service built on it (src/modules/day_twelve.rs).                        *)
(*                                                                         *)
(* Three levels are modelled, over the same variables:                     *)
(*   SpecEngine / SpecWinner  calls on one Connect4 value, as in the tests *)
(*   Spec                     the four HTTP handlers, one request at a time*)
(*   SpecConc / SpecPlace     handlers step by step, and the RwLock        *)
(*   SpecConcFair             SpecConc under fair scheduling               *)
(***************************************************************************)
EXTENDS Integers, Sequences, FiniteSets, TLC

VARIABLES
    game_state,   \* GameState.game_state: the Connect4 board (the `game` of the tests)
    rng,          \* GameState.rng: the StdRng
    prev,         \* history: game_state before the last call or request
    prev_rng,     \* history: rng before the last request
    call,         \* history: the last call on the Connect4 value and its result
    last,         \* history: the last request and its response
    hist,         \* history: random boards drawn since the generator was last
                  \* seeded; play() calls per column since new() or reset();
                  \* place requests answered 200 since startup or the last reset
    task,         \* the request each client has in flight, and where its handler is
    lock,         \* the RwLock around GameState
    stable        \* history: the session as the last finished writer left it

histVars == <<prev, prev_rng, call, last, hist>>

concVars == <<task, lock, stable>>

vars == <<game_state, rng, prev, prev_rng, call, last, hist, task, lock, stable>>

\* ------------------------------------------------------------------------
\* Program constants
\* ------------------------------------------------------------------------
BOARD_SIZE == 4

SEED == 2024

\* ------------------------------------------------------------------------
\* Bounds of the exploration
\* ------------------------------------------------------------------------
\* successful play() calls explored on a Connect4 value built by new()
MaxMoves == 4

\* accepted place requests explored by the service from the empty board
MaxGame == 3

\* random boards drawn between two reseedings
MaxRandom == 2

\* ------------------------------------------------------------------------
\* Cells, players, boards
\* ------------------------------------------------------------------------
Milk == "Milk"

Cookie == "Cookie"

Player == {Milk, Cookie}

None == "None"

Cell == Player \cup {None}

Idx == 0 .. (BOARD_SIZE - 1)

\* Connect4::new: every cell is Cell::default(), i.e. Cell(None)
Connect4_new == [row \in Idx |-> [col \in Idx |-> None]]

\* ------------------------------------------------------------------------
\* StdRng.  The generator is a library type; what the program relies on is
\* that it is a deterministic stream fixed by the seed, and that each
\* gen::<bool>() consumes one item of it.  The state is the seed and the
\* number of items consumed; Stream stands for the generator's output.
\* ------------------------------------------------------------------------
seed_from_u64(seed) == [seed |-> seed, index |-> 0]

Stream(seed, i) ==
    LET x == (seed + 31 * i) * (seed + 17 * i + 7)
    IN  ((x \div 64) % 2) = 1

\* the BOARD_SIZE * BOARD_SIZE booleans the nested loop of Connect4::random
\* draws, in drawing order
Draws(g) ==
    [k \in 0 .. (BOARD_SIZE * BOARD_SIZE - 1) |-> Stream(g.seed, g.index + k)]

\* (mutant) random() setting a cell only when the boolean drawn is true
RandomFromDraws_true_only(draws) ==
    [row \in Idx |-> [col \in Idx |->
        IF draws[row * BOARD_SIZE + col] THEN Cookie ELSE None]]

\* the loop body of Connect4::random: cells are visited row by row, each
\* takes the next boolean: true is Cookie, false is Milk
RandomFromDraws(draws) ==
    [row \in Idx |-> [col \in Idx |->
        IF draws[row * BOARD_SIZE + col] THEN Cookie ELSE Milk]]

\* (mutant) random() leaving the generator one draw per row further on
Connect4_random_row_draws(g) ==
    [board |-> RandomFromDraws(Draws(g)),
     rng   |-> [g EXCEPT !.index = @ + BOARD_SIZE]]

\* Connect4::random(&mut rng): the board and the advanced generator
Connect4_random(g) ==
    [board |-> RandomFromDraws(Draws(g)),
     rng   |-> [g EXCEPT !.index = @ + BOARD_SIZE * BOARD_SIZE]]

\* ------------------------------------------------------------------------
\* Connect4::play
\* ------------------------------------------------------------------------
\* (mutant) the rows play() looks at, without the top row
EmptyRows_below_top(b, column) == {row \in Idx \ {0} : b[row][column] = None}

\* rows of column `column` that are empty
EmptyRows(b, column) == {row \in Idx : b[row][column] = None}

\* (mutant) the scan of play() passing over the first empty cell it meets
\* when there is another one above it
SecondEmptyFromBottom(b, column) ==
    CHOOSE row \in EmptyRows(b, column) :
        Cardinality({other \in EmptyRows(b, column) : other > row})
            = (IF Cardinality(EmptyRows(b, column)) > 1 THEN 1 ELSE 0)

\* (mutant) the scan of play() run from the top row down
FirstEmptyFromTop(b, column) ==
    CHOOSE row \in EmptyRows(b, column) :
        \A other \in EmptyRows(b, column) : other >= row

\* the first empty row met by iter_mut().rev(), i.e. scanning bottom to top
FirstEmptyFromBottom(b, column) ==
    CHOOSE row \in EmptyRows(b, column) :
        \A other \in EmptyRows(b, column) : other <= row

\* (mutant) play() that writes the top cell of a full column instead of failing
play_over_full(b, player, column) ==
    IF column >= BOARD_SIZE
    THEN [result |-> "Invalid column", board |-> b]
    ELSE IF EmptyRows(b, column) = {}
    THEN [result |-> "Ok", board |-> [b EXCEPT ![0][column] = player]]
    ELSE [result |-> "Ok",
          board  |-> [b EXCEPT ![FirstEmptyFromBottom(b, column)][column] = player]]

\* (mutant) play() reporting a column beyond the board as a full column
play_invalid_as_full(b, player, column) ==
    IF column >= BOARD_SIZE
    THEN [result |-> "Column full", board |-> b]
    ELSE IF EmptyRows(b, column) = {}
    THEN [result |-> "Column full", board |-> b]
    ELSE [result |-> "Ok",
          board  |-> [b EXCEPT ![FirstEmptyFromBottom(b, column)][column] = player]]

play(b, player, column) ==
    IF column >= BOARD_SIZE
    THEN [result |-> "Invalid column", board |-> b]
    ELSE IF EmptyRows(b, column) = {}
    THEN [result |-> "Column full", board |-> b]
    ELSE [result |-> "Ok",
          board  |-> [b EXCEPT ![FirstEmptyFromBottom(b, column)][column] = player]]

\* ------------------------------------------------------------------------
\* Connect4::board_full, Connect4::column_full
\* ------------------------------------------------------------------------
\* (mutant) board_full satisfied by one full row
board_full_some_row(b) == \E row \in Idx : \A col \in Idx : b[row][col] # None

board_full(b) == \A row \in Idx : \A col \in Idx : b[row][col] # None

\* (mutant) column_full looking at the bottom cell of the column
column_full_bottom(b, column) == b[BOARD_SIZE - 1][column] # None

\* (mutant) column_full looking at the top cell of the next column
column_full_next_column(b, column) == b[0][(column + 1) % BOARD_SIZE] # None

\* (mutant) column_full looking one cell below the top of the column
column_full_below_top(b, column) == b[1][column] # None

column_full(b, column) == b[0][column] # None

\* ------------------------------------------------------------------------
\* Connect4::check_winner, Connect4::winner
\* ------------------------------------------------------------------------
\* (mutant) check_winner comparing only the far end of the line with the anchor
check_winner_ends(b, row, col, row_delta, col_delta) ==
    IF ~(row \in Idx /\ col \in Idx) THEN None
    ELSE IF b[row][col] = None THEN None
    ELSE IF \A i \in 3 .. 3 :
               LET r == row + row_delta * i
                   c == col + col_delta * i
               IN  /\ r >= 0 /\ c >= 0
                   /\ r < BOARD_SIZE /\ c < BOARD_SIZE
                   /\ b[r][c] = b[row][col]
    THEN b[row][col]
    ELSE None

\* (mutant) check_winner satisfied by three cells in a line
check_winner_three(b, row, col, row_delta, col_delta) ==
    IF ~(row \in Idx /\ col \in Idx) THEN None
    ELSE IF b[row][col] = None THEN None
    ELSE IF \A i \in 1 .. 2 :
               LET r == row + row_delta * i
                   c == col + col_delta * i
               IN  /\ r >= 0 /\ c >= 0
                   /\ r < BOARD_SIZE /\ c < BOARD_SIZE
                   /\ b[r][c] = b[row][col]
    THEN b[row][col]
    ELSE None

check_winner(b, row, col, row_delta, col_delta) ==
    IF ~(row \in Idx /\ col \in Idx) THEN None
    ELSE IF b[row][col] = None THEN None
    ELSE IF \A i \in 1 .. 3 :
               LET r == row + row_delta * i
                   c == col + col_delta * i
               IN  /\ r >= 0 /\ c >= 0
                   /\ r < BOARD_SIZE /\ c < BOARD_SIZE
                   /\ b[r][c] = b[row][col]
    THEN b[row][col]
    ELSE None

\* (mutant) the scan of winner() without its last anchor
WinnerScanNoAntiDiagonal ==
    [k \in 1 .. BOARD_SIZE |-> <<k - 1, 0, 0, 1>>]
    \o [k \in 1 .. BOARD_SIZE |-> <<0, k - 1, 1, 0>>]
    \o << <<0, 0, 1, 1>> >>

\* (mutant) the scan of winner() taking the rows from the bottom row up
WinnerScanRowsBottomUp ==
    [k \in 1 .. BOARD_SIZE |-> <<BOARD_SIZE - k, 0, 0, 1>>]
    \o [k \in 1 .. BOARD_SIZE |-> <<0, k - 1, 1, 0>>]
    \o << <<0, 0, 1, 1>>, <<0, BOARD_SIZE - 1, 1, -1>> >>

\* (mutant) the scan of winner() without the anchor of the bottom row
WinnerScanNoBottomRow ==
    [k \in 1 .. (BOARD_SIZE - 1) |-> <<k - 1, 0, 0, 1>>]
    \o [k \in 1 .. BOARD_SIZE |-> <<0, k - 1, 1, 0>>]
    \o << <<0, 0, 1, 1>>, <<0, BOARD_SIZE - 1, 1, -1>> >>

\* (mutant) the scan of winner() with the column anchors of the even columns only
WinnerScanEvenColumns ==
    [k \in 1 .. BOARD_SIZE |-> <<k - 1, 0, 0, 1>>]
    \o [k \in 1 .. (BOARD_SIZE \div 2) |-> <<0, 2 * (k - 1), 1, 0>>]
    \o << <<0, 0, 1, 1>>, <<0, BOARD_SIZE - 1, 1, -1>> >>

\* the anchors and directions winner() tries, in its order
WinnerScan ==
    [k \in 1 .. BOARD_SIZE |-> <<k - 1, 0, 0, 1>>]
    \o [k \in 1 .. BOARD_SIZE |-> <<0, k - 1, 1, 0>>]
    \o << <<0, 0, 1, 1>>, <<0, BOARD_SIZE - 1, 1, -1>> >>

ScanHit(b, k) ==
    check_winner(b, WinnerScan[k][1], WinnerScan[k][2], WinnerScan[k][3], WinnerScan[k][4])

winner(b) ==
    LET hits == {k \in 1 .. Len(WinnerScan) : ScanHit(b, k) # None}
    IN  IF hits = {} THEN None
        ELSE ScanHit(b, CHOOSE k \in hits : \A j \in hits : k <= j)

\* (mutant) reset() that clears the top row only
Connect4_reset_top_row(b) == [b EXCEPT ![0] = [col \in Idx |-> None]]

\* Connect4::reset
Connect4_reset(b) == [row \in Idx |-> [col \in Idx |-> None]]

\* ------------------------------------------------------------------------
\* Display for Player, Cell and Connect4.  A text is the sequence of its
\* lines, a line the sequence of its glyphs; glyphs are named by their code
\* points.
\* ------------------------------------------------------------------------
WALL == "U+2B1C"

Player_to_string(p) == IF p = Milk THEN "U+1F95B" ELSE "U+1F36A"

Cell_to_string(c) == IF c = None THEN "U+2B1B" ELSE Player_to_string(c)

\* (mutant) Display testing board_full() before winner()
to_string_full_first(b) ==
    LET rowLine(row) ==
            [k \in 1 .. (BOARD_SIZE + 2) |->
                IF k = 1 \/ k = BOARD_SIZE + 2 THEN WALL
                ELSE Cell_to_string(b[row][k - 2])]
        grid == [k \in 1 .. BOARD_SIZE |-> rowLine(k - 1)]
        border == [k \in 1 .. (BOARD_SIZE + 2) |-> WALL]
        w == winner(b)
        status == IF board_full(b) THEN << <<"No winner.">> >>
                  ELSE IF w # None THEN << <<Player_to_string(w), " wins!">> >>
                  ELSE << >>
    IN  grid \o <<border>> \o status

to_string(b) ==
    LET rowLine(row) ==
            [k \in 1 .. (BOARD_SIZE + 2) |->
                IF k = 1 \/ k = BOARD_SIZE + 2 THEN WALL
                ELSE Cell_to_string(b[row][k - 2])]
        grid == [k \in 1 .. BOARD_SIZE |-> rowLine(k - 1)]
        border == [k \in 1 .. (BOARD_SIZE + 2) |-> WALL]
        w == winner(b)
        status == IF w # None THEN << <<Player_to_string(w), " wins!">> >>
                  ELSE IF board_full(b) THEN << <<"No winner.">> >>
                  ELSE << >>
    IN  grid \o <<border>> \o status

\* ------------------------------------------------------------------------
\* The session store: Arc<RwLock<GameState>> and the tasks serving requests
\* ------------------------------------------------------------------------
\* concurrent clients
NumProcs == 2

Procs == 1 .. NumProcs

Unlocked == [writer |-> 0, readers |-> {}, queue |-> << >>]

\* `index` holds the 0-based column once the handler has computed column - 1
NoTask ==
    [op |-> "idle", player |-> None, column |-> 0, pc |-> "idle",
     index |-> << >>, local |-> Connect4_new]

\* the tasks and the lock while no request is in flight
ConcIdle ==
    /\ task = [p \in Procs |-> NoTask]
    /\ lock = Unlocked
    /\ stable = [game_state |-> Connect4_new, rng |-> seed_from_u64(SEED)]

\* number of occupied cells
Occupied(b) == Cardinality({rc \in Idx \X Idx : b[rc[1]][rc[2]] # None})

\* ------------------------------------------------------------------------
\* SpecEngine: calls on one Connect4 value.  The value is built by one of
\* the two constructors, new() or random(), and then receives play(),
\* reset() and winner() calls, as in the unit tests.
\* ------------------------------------------------------------------------
NoCall == [op |-> "init", player |-> None, column |-> 0, result |-> "Ok"]

NoRequest == [op |-> "init", player |-> None, column |-> 0, status |-> 0, body |-> << >>]

NoHist ==
    [randoms |-> 0, reseeded |-> FALSE,
     from_new |-> FALSE, plays |-> [column \in Idx |-> 0], placed |-> 0]

\* the generator of a fresh process after k random boards were drawn from it
RECURSIVE FreshRng(_)
FreshRng(k) ==
    IF k = 0 THEN seed_from_u64(SEED)
    ELSE Connect4_random(FreshRng(k - 1)).rng

\* the play() calls of test_full_board_no_winner, in order
DrawnGame ==
    << <<Milk, 0>>, <<Milk, 0>>, <<Cookie, 0>>, <<Cookie, 0>>,
       <<Cookie, 1>>, <<Cookie, 1>>, <<Milk, 1>>, <<Milk, 1>>,
       <<Milk, 2>>, <<Milk, 2>>, <<Cookie, 2>>, <<Cookie, 2>>,
       <<Milk, 3>>, <<Milk, 3>>, <<Cookie, 3>>, <<Cookie, 3>> >>

\* the board after the play() calls `moves` were made in turn
RECURSIVE PlayAll(_, _)
PlayAll(b, moves) ==
    IF moves = << >> THEN b
    ELSE PlayAll(play(b, Head(moves)[1], Head(moves)[2]).board, Tail(moves))

\* the boards that game passes through, call by call
DrawnGameBoards ==
    {PlayAll(Connect4_new, SubSeq(DrawnGame, 1, n)) : n \in 0 .. Len(DrawnGame)}

\* columns passed to play(): the valid ones and two beyond the board
EngineColumns == 0 .. (BOARD_SIZE + 1)

EngineInit ==
    /\ \/ game_state = Connect4_new
       \/ \E k \in 0 .. MaxRandom : game_state = Connect4_random(FreshRng(k)).board
    /\ rng = seed_from_u64(SEED)
    /\ prev = game_state
    /\ prev_rng = rng
    /\ call = NoCall
    /\ last = NoRequest
    /\ hist = [NoHist EXCEPT !.from_new = (game_state = Connect4_new)]
    /\ ConcIdle

\* the history after a play() call: on a value that was built by new() (or
\* reset), the calls made with each valid column are counted, up to one more
\* than the column holds
Played(h, column) ==
    IF h.from_new /\ column \in Idx /\ h.plays[column] <= BOARD_SIZE
    THEN [h EXCEPT !.plays[column] = @ + 1]
    ELSE h

EnginePlay(player, column) ==
    LET r == play(game_state, player, column)
    IN  /\ Occupied(r.board) > Occupied(game_state)
             => (Occupied(game_state) < MaxMoves \/ r.board \in DrawnGameBoards)
        /\ game_state' = r.board
        /\ prev' = game_state
        /\ call' = [op |-> "play", player |-> player, column |-> column, result |-> r.result]
        /\ hist' = Played(hist, column)
        /\ UNCHANGED <<rng, prev_rng, last, concVars>>

EngineReset ==
    /\ game_state' = Connect4_reset(game_state)
    /\ prev' = game_state
    /\ call' = [op |-> "reset", player |-> None, column |-> 0, result |-> "Ok"]
    /\ hist' = [NoHist EXCEPT !.from_new = TRUE]
    /\ UNCHANGED <<rng, prev_rng, last, concVars>>

EngineWinner ==
    /\ call' = [op |-> "winner", player |-> None, column |-> 0, result |-> winner(game_state)]
    /\ prev' = game_state
    /\ UNCHANGED <<game_state, rng, prev_rng, last, hist, concVars>>

EngineNext ==
    \/ \E player \in Player, column \in EngineColumns : EnginePlay(player, column)
    \/ EngineReset
    \/ EngineWinner

SpecEngine == EngineInit /\ [][EngineNext]_vars

\* ------------------------------------------------------------------------
\* Claims about play()
\* ------------------------------------------------------------------------
HasEmptyCell(b, column) == \E row \in Idx : b[row][column] = None

\* C1: play(p, c) with c < N into a column that has an empty cell succeeds;
\* the bottom-most empty cell of column c becomes p and every other cell of
\* the board keeps its value.
C1_PlayFillsLowestEmptyCell ==
    (call.op = "play" /\ call.column < BOARD_SIZE /\ HasEmptyCell(prev, call.column))
    => /\ call.result = "Ok"
       /\ \E row \in Idx :
            /\ prev[row][call.column] = None
            /\ \A below \in Idx : below > row => prev[below][call.column] # None
            /\ game_state[row][call.column] = call.player
            /\ \A r \in Idx, c \in Idx :
                 <<r, c>> # <<row, call.column>> => game_state[r][c] = prev[r][c]

\* a successful play() that landed on top of an earlier marker
C1_Witness ==
    /\ call.op = "play" /\ call.result = "Ok"
    /\ prev[BOARD_SIZE - 1][call.column] # None
    /\ game_state # prev

\* C2: play into a column whose cells are all occupied fails with the
\* "Column full" error and leaves every cell as it was.
C2_PlayFullColumnFails ==
    (call.op = "play" /\ call.column < BOARD_SIZE /\ ~HasEmptyCell(prev, call.column))
    => /\ call.result = "Column full"
       /\ \A r \in Idx, c \in Idx : game_state[r][c] = prev[r][c]

\* a failed play() into a full column of a board that still has empty cells
C2_Witness ==
    /\ call.op = "play" /\ call.result = "Column full"
    /\ ~HasEmptyCell(prev, call.column)
    /\ ~board_full(prev)

\* markers in column `column`
ColumnCount(b, column) == Cardinality({row \in Idx : b[row][column] # None})

\* C13: in a sequence of play() calls on a board built by new() in which no
\* valid column was played more than N times, no call with a valid column
\* failed, and each column holds as many markers as calls were made into it.
C13_PlaysWithinCapacitySucceed ==
    (hist.from_new /\ \A column \in Idx : hist.plays[column] <= BOARD_SIZE)
    => /\ (call.op = "play" /\ call.column \in Idx) => call.result = "Ok"
       /\ \A column \in Idx : ColumnCount(game_state, column) = hist.plays[column]

\* the N-th call into one column succeeded and filled it
C13_Witness ==
    /\ hist.from_new /\ call.op = "play" /\ call.result = "Ok"
    /\ hist.plays[call.column] = BOARD_SIZE
    /\ ColumnCount(game_state, call.column) = BOARD_SIZE
    /\ game_state # prev

\* C14: play(p, c) with c >= N fails with the "Invalid column" error, for
\* every board and player, and leaves every cell as it was.  (play() reads
\* no cell of column c: there is none.)
C14_PlayInvalidColumnFails ==
    (call.op = "play" /\ call.column >= BOARD_SIZE)
    => /\ call.result = "Invalid column"
       /\ game_state = prev

\* play() refused column N on a board with markers and room left
C14_Witness ==
    /\ call.op = "play" /\ call.column = BOARD_SIZE
    /\ call.result = "Invalid column"
    /\ Occupied(prev) > 0 /\ ~board_full(prev)

\* ------------------------------------------------------------------------
\* SpecWinner: winner() applied to the boards the two constructors and
\* play() can build: every board random() can return (one per outcome of
\* its 16 draws) and every board reached from new() by at most MaxMoves
\* successful play() calls.
\* ------------------------------------------------------------------------
RandomBoards ==
    {RandomFromDraws(d) : d \in [0 .. (BOARD_SIZE * BOARD_SIZE - 1) -> BOOLEAN]}

RECURSIVE PlayedBoards(_)
PlayedBoards(n) ==
    IF n = 0 THEN {Connect4_new}
    ELSE LET before == PlayedBoards(n - 1)
         IN  before \cup
             {play(b, p, c).board : b \in before, p \in Player, c \in Idx}

WinnerInit ==
    /\ \/ /\ game_state \in RandomBoards
          /\ hist = NoHist
       \/ /\ game_state \in PlayedBoards(MaxMoves)
          /\ hist = [NoHist EXCEPT !.from_new = TRUE]
    /\ rng = seed_from_u64(SEED)
    /\ prev = game_state
    /\ prev_rng = rng
    /\ call = NoCall
    /\ last = NoRequest
    /\ ConcIdle

WinnerNext == EngineWinner

SpecWinner == WinnerInit /\ [][WinnerNext]_vars

\* the four directions of a line: right, down, down-right, down-left
Directions == {<<0, 1>>, <<1, 0>>, <<1, 1>>, <<1, -1>>}

\* reference scan: player p holds four cells in a row starting at some
\* anchor cell, in some direction, without leaving the board
RefHolds(b, p) ==
    \E row \in Idx, col \in Idx, d \in Directions :
        \A i \in 0 .. 3 :
            /\ (row + i * d[1]) \in Idx
            /\ (col + i * d[2]) \in Idx
            /\ b[row + i * d[1]][col + i * d[2]] = p

\* the rows, the columns and the two diagonals, as sets of cells
Lines ==
    {{<<row, col>> : col \in Idx} : row \in Idx}
    \cup {{<<row, col>> : row \in Idx} : col \in Idx}
    \cup {{<<k, k>> : k \in Idx}, {<<k, BOARD_SIZE - 1 - k>> : k \in Idx}}

HoldsLine(b, p) == \E line \in Lines : \A rc \in line : b[rc[1]][rc[2]] = p

\* C5: winner() returns Some(p) iff some row, column or diagonal is held by
\* one player, and then p holds such a line; its scan from the fixed anchors
\* agrees with the reference scan from every anchor in all four directions.
C5_WinnerIffLine ==
    call.op = "winner"
    => /\ (call.result # None) <=> (\E p \in Player : HoldsLine(game_state, p))
       /\ call.result # None => HoldsLine(game_state, call.result)
       /\ (call.result # None) <=> (\E p \in Player : RefHolds(game_state, p))
       /\ call.result # None => RefHolds(game_state, call.result)

\* winner() found a line that only its last anchor, the '/' diagonal, sees
C5_Witness ==
    /\ call.op = "winner" /\ call.result # None
    /\ \A k \in 1 .. (Len(WinnerScan) - 1) : ScanHit(game_state, k) = None

\* ------------------------------------------------------------------------
\* Claims about games played on one Connect4 value (SpecEngine)
\* ------------------------------------------------------------------------
\* C18: a full board on which no player holds four cells in a line has
\* board_full() = true and winner() = None (and such a board is reached from
\* new() by successful play() calls: C18_Witness).
C18_DrawnBoard ==
    (/\ Occupied(game_state) = BOARD_SIZE * BOARD_SIZE
     /\ \A p \in Player : ~RefHolds(game_state, p))
    => /\ board_full(game_state)
       /\ winner(game_state) = None
       /\ call.op = "winner" => call.result = None

\* the drawn board, reached from new() by N successful play() calls into each
\* column, and winner() called on it
C18_Witness ==
    /\ hist.from_new /\ \A column \in Idx : hist.plays[column] = BOARD_SIZE
    /\ Occupied(game_state) = BOARD_SIZE * BOARD_SIZE
    /\ \A p \in Player : ~HoldsLine(game_state, p)
    /\ call.op = "winner" /\ call.result = None

\* the board holds `n` markers, all of player p
OnlyMarkersOf(b, p, n) ==
    /\ Occupied(b) = n
    /\ \A row \in Idx, col \in Idx : b[row][col] \in {None, p}

\* C19: four consecutive moves of one player p on a board built by new(),
\* one into each of the columns 0..N-1 in any order, land in the bottom row
\* and give winner() = Some(p), for either player.
C19_RowWin ==
    \A p \in Player :
        (/\ hist.from_new /\ \A column \in Idx : hist.plays[column] = 1
         /\ OnlyMarkersOf(game_state, p, BOARD_SIZE))
        => /\ \A column \in Idx : game_state[BOARD_SIZE - 1][column] = p
           /\ winner(game_state) = p
           /\ call.op = "winner" => call.result = p

\* Cookie won with the bottom row, its last move made into column 1
C19_Witness ==
    /\ hist.from_new /\ \A column \in Idx : hist.plays[column] = 1
    /\ OnlyMarkersOf(game_state, Cookie, BOARD_SIZE)
    /\ call.op = "play" /\ call.column = 1 /\ call.result = "Ok" /\ game_state # prev
    /\ winner(game_state) = Cookie

\* C20: four consecutive moves of one player p on a board built by new(),
\* all into the same column c, fill that column and give winner() = Some(p),
\* for every column c in 0..N-1 and either player.
C20_ColumnWin ==
    \A p \in Player, c \in Idx :
        (/\ hist.from_new /\ hist.plays[c] = BOARD_SIZE
         /\ OnlyMarkersOf(game_state, p, BOARD_SIZE))
        => /\ \A row \in Idx : game_state[row][c] = p
           /\ winner(game_state) = p
           /\ call.op = "winner" => call.result = p

\* Milk won with the last column, and winner() was called
C20_Witness ==
    /\ hist.from_new /\ hist.plays[BOARD_SIZE - 1] = BOARD_SIZE
    /\ OnlyMarkersOf(game_state, Milk, BOARD_SIZE)
    /\ call.op = "winner" /\ call.result = Milk

\* markers of player p on the board
MarkersOf(b, p) == Cardinality({rc \in Idx \X Idx : b[rc[1]][rc[2]] = p})

\* C21: winner() is None on the empty board, on every board where no
\* player has four cells connected in a line, and in particular on every
\* board where each player has fewer than four markers.
C21_NoLineNoWinner ==
    call.op = "winner"
    => /\ game_state = Connect4_new => call.result = None
       /\ (\A p \in Player : ~RefHolds(game_state, p)) => call.result = None
       /\ (\A p \in Player : MarkersOf(game_state, p) < 4) => call.result = None

\* winner() returned None on a board where Milk has three cells in a row
\* next to a Cookie marker
C21_Witness ==
    /\ call.op = "winner" /\ call.result = None
    /\ MarkersOf(game_state, Milk) = 3 /\ MarkersOf(game_state, Cookie) = 1
    /\ \A col \in 0 .. 2 : game_state[BOARD_SIZE - 1][col] = Milk
    /\ game_state[BOARD_SIZE - 1][BOARD_SIZE - 1] = Cookie

\* the lines of the board in the order of the scan: rows from the top row
\* down, columns from left to right, the '\' diagonal, the '/' diagonal
LinesInScanOrder ==
    [k \in 1 .. BOARD_SIZE |-> {<<k - 1, col>> : col \in Idx}]
    \o [k \in 1 .. BOARD_SIZE |-> {<<row, k - 1>> : row \in Idx}]
    \o << {<<k, k>> : k \in Idx}, {<<k, BOARD_SIZE - 1 - k>> : k \in Idx} >>

\* the player holding line number k, or None
LineHolder(b, k) ==
    IF \E p \in Player : \A rc \in LinesInScanOrder[k] : b[rc[1]][rc[2]] = p
    THEN CHOOSE p \in Player : \A rc \in LinesInScanOrder[k] : b[rc[1]][rc[2]] = p
    ELSE None

\* the lines held by a player
HeldLines(b) == {k \in 1 .. Len(LinesInScanOrder) : LineHolder(b, k) # None}

\* C25: on a board with more than one four-in-a-row line, also of two
\* different players, winner() returns the holder of the first line in the
\* order rows top-down, columns left to right, '\' diagonal, '/' diagonal.
C25_FirstLineInScanOrder ==
    (call.op = "winner" /\ HeldLines(game_state) # {})
    => \E k \in HeldLines(game_state) :
          /\ \A j \in HeldLines(game_state) : k <= j
          /\ call.result = LineHolder(game_state, k)

\* winner() returned Cookie on a board where Cookie holds a row and Milk
\* holds a row below it
C25_Witness ==
    /\ call.op = "winner" /\ call.result = Cookie
    /\ \E upper \in Idx, lower \in Idx :
         /\ upper < lower
         /\ \A col \in Idx : game_state[upper][col] = Cookie
         /\ \A col \in Idx : game_state[lower][col] = Milk

\* no occupied cell lies above an empty cell of its column
Gravity(b) ==
    \A row \in Idx, col \in Idx :
        b[row][col] # None => \A below \in Idx : below > row => b[below][col] # None

\* C27: on every board built from new() by play() and reset() calls each
\* column is a stack standing on the bottom row, so column_full(c), which
\* reads the top cell only, is true exactly when all N cells of column c are
\* occupied.
C27_GravityInvariant ==
    /\ Gravity(game_state)
    /\ \A c \in Idx : column_full(game_state, c) <=> ColumnCount(game_state, c) = BOARD_SIZE

\* a board built by play() with a full column next to a partly filled one
C27_Witness ==
    /\ hist.from_new /\ call.op = "play" /\ call.result = "Ok"
    /\ \E c \in Idx, d \in Idx :
         /\ column_full(game_state, c)
         /\ ColumnCount(game_state, d) \in 1 .. (BOARD_SIZE - 1)
         /\ ~column_full(game_state, d)

\* C28: on every reachable board and for every column c < N, play(p, c)
\* fails iff column_full(c): the engine's test (no empty cell in the column)
\* and the handler's pre-check (top cell occupied) agree.
C28_PlayFailsIffColumnFull ==
    /\ (call.op = "play" /\ call.column < BOARD_SIZE)
       => ((call.result # "Ok") <=> column_full(prev, call.column))
    /\ \A p \in Player, c \in Idx :
         (play(game_state, p, c).result # "Ok") <=> column_full(game_state, c)

\* play() refused a column that column_full() reports full, on a board
\* built by play() with room left elsewhere
C28_Witness ==
    /\ hist.from_new /\ call.op = "play" /\ call.result = "Column full"
    /\ column_full(prev, call.column)
    /\ \E c \in Idx : ~column_full(prev, c) /\ ColumnCount(prev, c) > 0

\* ------------------------------------------------------------------------
\* The request handlers of day_twelve.rs.  Each takes the write (or read)
\* lock in its first statement and holds it until it returns, so a handler
\* is a function from the session (game_state, rng) to the session and the
\* response.  SpecConc below models the lock itself.
\* ------------------------------------------------------------------------
Session(b, g) == [game_state |-> b, rng |-> g]

Response(s, status, body) ==
    [game_state |-> s.game_state, rng |-> s.rng, status |-> status, body |-> body]

\* (mutant) board rendering under a guard through which it reseeds the generator
board_reseeding(s) ==
    Response(Session(s.game_state, seed_from_u64(SEED)), 200, to_string(s.game_state))

\* async fn board
board(s) == Response(s, 200, to_string(s.game_state))

\* (mutant) reset that leaves the generator as it is
reset_without_reseed(s) ==
    LET t == Session(Connect4_reset(s.game_state), s.rng)
    IN  Response(t, 200, to_string(t.game_state))

\* async fn reset
reset(s) ==
    LET t == Session(Connect4_reset(s.game_state), seed_from_u64(SEED))
    IN  Response(t, 200, to_string(t.game_state))

\* (mutant) place without the column_full test
place_without_column_check(s, player, column) ==
    IF ~(column \in 1 .. BOARD_SIZE)
    THEN Response(s, 400, << >>)
    ELSE IF \/ board_full(s.game_state)
            \/ winner(s.game_state) # None
    THEN Response(s, 503, to_string(s.game_state))
    ELSE LET r == play(s.game_state, player, column - 1)
         IN  IF r.result # "Ok"
             THEN Response(s, 500, << <<r.result>> >>)
             ELSE Response(Session(r.board, s.rng), 200, to_string(r.board))

\* (mutant) place without the winner test
place_without_winner_check(s, player, column) ==
    IF ~(column \in 1 .. BOARD_SIZE)
    THEN Response(s, 400, << >>)
    ELSE IF \/ column_full(s.game_state, column - 1)
            \/ board_full(s.game_state)
    THEN Response(s, 503, to_string(s.game_state))
    ELSE LET r == play(s.game_state, player, column - 1)
         IN  IF r.result # "Ok"
             THEN Response(s, 500, << <<r.result>> >>)
             ELSE Response(Session(r.board, s.rng), 200, to_string(r.board))

\* (mutant) place that goes on accepting moves on a board with a winner or
\* a full board, as long as the column has room
place_without_terminal_checks(s, player, column) ==
    IF ~(column \in 1 .. BOARD_SIZE)
    THEN Response(s, 400, << >>)
    ELSE IF column_full(s.game_state, column - 1)
    THEN Response(s, 503, to_string(s.game_state))
    ELSE LET r == play(s.game_state, player, column - 1)
         IN  IF r.result # "Ok"
             THEN Response(s, 500, << <<r.result>> >>)
             ELSE Response(Session(r.board, s.rng), 200, to_string(r.board))

\* (mutant) place answering 200 with the new board without storing it
place_not_stored(s, player, column) ==
    IF ~(column \in 1 .. BOARD_SIZE)
    THEN Response(s, 400, << >>)
    ELSE IF \/ column_full(s.game_state, column - 1)
            \/ board_full(s.game_state)
            \/ winner(s.game_state) # None
    THEN Response(s, 503, to_string(s.game_state))
    ELSE LET r == play(s.game_state, player, column - 1)
         IN  IF r.result # "Ok"
             THEN Response(s, 500, << <<r.result>> >>)
             ELSE Response(s, 200, to_string(r.board))

\* (mutant) place refusing a move out of turn: Milk moves when both players
\* have as many markers, Cookie when Milk has one more
place_in_turn(s, player, column) ==
    LET milk == Cardinality({rc \in Idx \X Idx : s.game_state[rc[1]][rc[2]] = Milk})
        cookie == Cardinality({rc \in Idx \X Idx : s.game_state[rc[1]][rc[2]] = Cookie})
        turn == IF milk = cookie THEN Milk ELSE Cookie
    IN  IF ~(column \in 1 .. BOARD_SIZE)
        THEN Response(s, 400, << >>)
        ELSE IF \/ column_full(s.game_state, column - 1)
                \/ board_full(s.game_state)
                \/ winner(s.game_state) # None
                \/ player # turn
        THEN Response(s, 503, to_string(s.game_state))
        ELSE LET r == play(s.game_state, player, column - 1)
             IN  IF r.result # "Ok"
                 THEN Response(s, 500, << <<r.result>> >>)
                 ELSE Response(Session(r.board, s.rng), 200, to_string(r.board))

\* (mutant) place passing the path column to the engine as it came
place_without_conversion(s, player, column) ==
    IF ~(column \in 1 .. BOARD_SIZE)
    THEN Response(s, 400, << >>)
    ELSE IF \/ column_full(s.game_state, column - 1)
            \/ board_full(s.game_state)
            \/ winner(s.game_state) # None
    THEN Response(s, 503, to_string(s.game_state))
    ELSE LET r == play(s.game_state, player, column)
         IN  IF r.result # "Ok"
             THEN Response(s, 500, << <<r.result>> >>)
             ELSE Response(Session(r.board, s.rng), 200, to_string(r.board))

\* async fn place; `column` is the 1-based column of the path
place(s, player, column) ==
    IF ~(column \in 1 .. BOARD_SIZE)
    THEN Response(s, 400, << >>)
    ELSE IF \/ column_full(s.game_state, column - 1)
            \/ board_full(s.game_state)
            \/ winner(s.game_state) # None
    THEN Response(s, 503, to_string(s.game_state))
    ELSE LET r == play(s.game_state, player, column - 1)
         IN  IF r.result # "Ok"
             THEN Response(s, 500, << <<r.result>> >>)
             ELSE Response(Session(r.board, s.rng), 200, to_string(r.board))

\* (mutant) random_board keeping the generated board as the session board
random_board_stored(s) ==
    LET r == Connect4_random(s.rng)
    IN  Response(Session(r.board, r.rng), 200, to_string(r.board))

\* async fn random_board
random_board(s) ==
    LET r == Connect4_random(s.rng)
    IN  Response(Session(s.game_state, r.rng), 200, to_string(r.board))

\* RouterState::new
RouterState_new == Session(Connect4_new, seed_from_u64(SEED))

\* ------------------------------------------------------------------------
\* Spec: the service answering one request after another.
\* ------------------------------------------------------------------------
\* a game in progress: place requests (1-based columns) that fill columns
\* 1..N-1 with Milk and Cookie in turn, leaving column N empty.  None of
\* them ends the game, so the service accepts them all.
Opening ==
    [k \in 1 .. (BOARD_SIZE * (BOARD_SIZE - 1)) |->
        <<IF k % 2 = 1 THEN Milk ELSE Cookie, ((k - 1) \div BOARD_SIZE) + 1>>]

\* the session after the place requests `moves` were answered in turn
RECURSIVE PlaceAll(_, _)
PlaceAll(s, moves) ==
    IF moves = << >> THEN s
    ELSE LET r == place(s, Head(moves)[1], Head(moves)[2])
         IN  PlaceAll(Session(r.game_state, r.rng), Tail(moves))

OpeningLen == Len(Opening)

\* the number of the place requests `moves`, answered in turn from the
\* session s, that were answered 200
RECURSIVE Accepted(_, _)
Accepted(s, moves) ==
    IF moves = << >> THEN 0
    ELSE LET r == place(s, Head(moves)[1], Head(moves)[2])
         IN  (IF r.status = 200 THEN 1 ELSE 0)
               + Accepted(Session(r.game_state, r.rng), Tail(moves))

\* the history after a place request answered with `status`: the requests
\* answered 200 since the last reset (or startup) are counted, up to one
\* more than the board holds
Placed(h, status) ==
    IF status = 200 /\ h.placed <= BOARD_SIZE * BOARD_SIZE
    THEN [h EXCEPT !.placed = @ + 1]
    ELSE h

\* the games explored: up to MaxGame moves from the empty board, the
\* opening move by move (OpeningBoards), and every continuation of the opening
CanExplore(b) == Occupied(b) < MaxGame \/ Occupied(b) >= OpeningLen

\* the boards the opening passes through, move by move
OpeningBoards ==
    {PlaceAll(RouterState_new, SubSeq(Opening, 1, n)).game_state : n \in 0 .. OpeningLen}

\* columns of the path of a place request: 1..N and one on either side
PathColumns == 0 .. (BOARD_SIZE + 1)

Init ==
    /\ \E n \in {0, OpeningLen} :
         LET s == PlaceAll(RouterState_new, SubSeq(Opening, 1, n))
         IN  /\ game_state = s.game_state /\ rng = s.rng
             /\ hist = [NoHist EXCEPT
                          !.placed = Accepted(RouterState_new, SubSeq(Opening, 1, n))]
    /\ prev = game_state
    /\ prev_rng = rng
    /\ call = NoCall
    /\ last = NoRequest
    /\ ConcIdle

Answer(r, op, player, column) ==
    /\ game_state' = r.game_state
    /\ rng' = r.rng
    /\ prev' = game_state
    /\ prev_rng' = rng
    /\ last' = [op |-> op, player |-> player, column |-> column,
                status |-> r.status, body |-> r.body]
    /\ UNCHANGED <<call, concVars>>

GetBoard ==
    \E r \in {board(Session(game_state, rng))} :
        /\ Answer(r, "board", None, 0)
        /\ UNCHANGED hist

PostReset ==
    \E r \in {reset(Session(game_state, rng))} :
        /\ Answer(r, "reset", None, 0)
        /\ hist' = [hist EXCEPT !.randoms = 0, !.reseeded = @ \/ hist.randoms > 0,
                                !.placed = 0]

PostPlace(player, column) ==
    \E r \in {place(Session(game_state, rng), player, column)} :
        /\ Occupied(r.game_state) > Occupied(game_state)
             => (CanExplore(game_state) \/ r.game_state \in OpeningBoards)
        /\ Answer(r, "place", player, column)
        /\ hist' = Placed(hist, r.status)

GetRandomBoard ==
    /\ hist.randoms < MaxRandom
    /\ \E r \in {random_board(Session(game_state, rng))} : Answer(r, "random", None, 0)
    /\ hist' = [hist EXCEPT !.randoms = @ + 1]

Next ==
    \/ GetBoard
    \/ PostReset
    \/ \E player \in Player, column \in PathColumns : PostPlace(player, column)
    \/ GetRandomBoard

Spec == Init /\ [][Next]_vars

\* ------------------------------------------------------------------------
\* Claims about the handlers
\* ------------------------------------------------------------------------
Terminal(b) == winner(b) # None \/ board_full(b)

\* C3: a place request with a column in 1..N, made when the target column
\* has no empty cell, or the board is full, or there is a winner, is answered
\* 503 with the rendering of the board, and changes neither board nor rng.
C3_BlockedPlaceIs503 ==
    (/\ last.op = "place"
     /\ last.column \in 1 .. BOARD_SIZE
     /\ \/ ~HasEmptyCell(prev, last.column - 1)
        \/ board_full(prev)
        \/ winner(prev) # None)
    => /\ last.status = 503
       /\ last.body = to_string(prev)
       /\ last.body = to_string(game_state)
       /\ game_state = prev
       /\ rng = prev_rng

\* a place request refused on a drawn board: full, without a winner
C3_Witness ==
    /\ last.op = "place" /\ last.status = 503
    /\ board_full(prev) /\ winner(prev) = None

\* C4: a request other than reset, answered when the board is terminal,
\* leaves the board as it was, and a place request is then never answered
\* 200.  (The board after any run of such requests is therefore the terminal
\* board, until a reset is answered.)
C4_TerminalBoardStays ==
    (Terminal(prev) /\ last.op \in {"board", "place", "random"})
    => /\ game_state = prev
       /\ last.op = "place" => last.status # 200

\* a move into a column with room, refused because the game has a winner
C4_Witness ==
    /\ last.op = "place" /\ last.column \in 1 .. BOARD_SIZE
    /\ winner(prev) # None
    /\ HasEmptyCell(prev, last.column - 1)
    /\ game_state = prev

\* the board of the scenario "reset, then milk, cookie, milk, cookie into
\* path column 1" after its first n moves: column 0 filled bottom-up
ScenarioBoard(n) ==
    [row \in Idx |-> [col \in Idx |->
        IF col = 0 /\ row >= BOARD_SIZE - n
        THEN IF (BOARD_SIZE - row) % 2 = 1 THEN Milk ELSE Cookie
        ELSE None]]

\* C12 (as stated): in the scenario reset, place/milk/1, place/cookie/1,
\* place/milk/1, place/cookie/1 the 4th move on column 1 is answered 503 and
\* the board stays as the third move left it.
C12_FourthMoveRefused ==
    (/\ last.op = "place" /\ last.player = Cookie /\ last.column = 1
     /\ prev = ScenarioBoard(BOARD_SIZE - 1))
    => last.status = 503 /\ game_state = prev

\* C12 (amended): in that scenario the 4th move on column 1 is answered 200
\* and fills the column; a further (5th) move on column 1, by either
\* player, is answered 503 with the board text, and the board is unchanged.
C12_FifthMoveRefused ==
    /\ (/\ last.op = "place" /\ last.player = Cookie /\ last.column = 1
        /\ prev = ScenarioBoard(BOARD_SIZE - 1))
       => /\ last.status = 200
          /\ game_state = ScenarioBoard(BOARD_SIZE)
          /\ last.body = to_string(game_state)
    /\ (last.op = "place" /\ last.column = 1 /\ prev = ScenarioBoard(BOARD_SIZE))
       => /\ last.status = 503
          /\ game_state = prev
          /\ last.body = to_string(prev)

\* the 5th move on column 1 was refused after the scenario's four moves
C12_Witness ==
    /\ last.op = "place" /\ last.column = 1 /\ last.status = 503
    /\ prev = ScenarioBoard(BOARD_SIZE)
    /\ rng = seed_from_u64(SEED)

\* C6: after reset every cell is empty, as after new(), whatever the board
\* was; a second reset would leave the session exactly as the first left it.
C6_ResetEmptiesBoard ==
    last.op = "reset"
    => /\ \A row \in Idx, col \in Idx : game_state[row][col] = None
       /\ game_state = Connect4_new
       /\ LET again == reset(Session(game_state, rng))
          IN  again.game_state = game_state /\ again.rng = rng

\* a reset answered on a terminal board
C6_Witness == last.op = "reset" /\ Terminal(prev) /\ game_state # prev

\* the text of the k-th random-board answer of a fresh process
FreshRandomText(k) == random_board(Session(Connect4_new, FreshRng(k - 1))).body

\* C7: the k-th random-board answer since the last reset (or since startup)
\* is the text a fresh process gives to its k-th random-board request.
C7_ResetReseeds ==
    last.op = "random" => last.body = FreshRandomText(hist.randoms)

\* a second random board drawn after a reset that followed earlier draws
C7_Witness ==
    /\ last.op = "random" /\ hist.reseeded /\ hist.randoms > 1
    /\ Occupied(game_state) > 0

\* the lines of a rendering after the grid and its closing border
StatusLines(text) == SubSeq(text, BOARD_SIZE + 2, Len(text))

\* C17: the text get-board returns ends, after the border line, with the
\* line "<Player> wins!" when winner() is Some(player); otherwise with the
\* line "No winner." when board_full(); otherwise with no status line.  A
\* full board that has a winner gets the wins line.
C17_StatusLine ==
    last.op = "board"
    => /\ Len(last.body) >= BOARD_SIZE + 1
       /\ last.body[BOARD_SIZE + 1] = [k \in 1 .. (BOARD_SIZE + 2) |-> WALL]
       /\ IF winner(prev) = Milk
          THEN StatusLines(last.body) = << <<"U+1F95B", " wins!">> >>
          ELSE IF winner(prev) = Cookie
          THEN StatusLines(last.body) = << <<"U+1F36A", " wins!">> >>
          ELSE IF \A row \in Idx, col \in Idx : prev[row][col] # None
          THEN StatusLines(last.body) = << <<"No winner.">> >>
          ELSE StatusLines(last.body) = << >>

\* get-board answered on a full board that has a winner
C17_Witness ==
    /\ last.op = "board"
    /\ board_full(prev) /\ winner(prev) # None
    /\ Len(last.body) = BOARD_SIZE + 2

\* C24: place never answers 500: every place request is answered 200, 400
\* or 503, because play(player, column - 1) is called only with a column in
\* range whose top cell is empty, where it cannot fail.
C24_PlaceNever500 ==
    last.op = "place"
    => /\ last.status # 500
       /\ last.status \in {200, 400, 503}
       /\ last.status = 200 => play(prev, last.player, last.column - 1).result = "Ok"

\* a move accepted into the last free cell of a column, as the N-th marker
\* of that column
C24_Witness ==
    /\ last.op = "place" /\ last.status = 200
    /\ ColumnCount(prev, last.column - 1) = BOARD_SIZE - 1
    /\ column_full(game_state, last.column - 1)

\* C26: get-board is answered 200 with the rendering of the session board
\* as it is, in every state, and leaves the board and the generator as they
\* were.
C26_GetBoardReadsOnly ==
    last.op = "board"
    => /\ last.status = 200
       /\ last.body = to_string(prev)
       /\ game_state = prev
       /\ rng = prev_rng

\* get-board answered during a game, after random boards were drawn
C26_Witness ==
    /\ last.op = "board" /\ last.status = 200
    /\ Occupied(prev) > 0 /\ ~Terminal(prev)
    /\ prev_rng # seed_from_u64(SEED)

\* C29: on every session board the handlers can produce at most one player
\* holds a four-in-a-row line, so every line held is held by the player
\* winner() returns whatever its scan order.
C29_AtMostOneWinner ==
    /\ ~(HoldsLine(game_state, Milk) /\ HoldsLine(game_state, Cookie))
    /\ \A p \in Player : HoldsLine(game_state, p) => winner(game_state) = p

\* a move refused on a board that Milk has won, where Cookie has markers
\* enough and a free cell that would complete a line of its own
C29_Witness ==
    /\ last.op = "place" /\ last.status = 503 /\ last.player = Cookie
    /\ last.column \in 1 .. BOARD_SIZE
    /\ HoldsLine(game_state, Milk)
    /\ HoldsLine(play(game_state, Cookie, last.column - 1).board, Cookie)

\* C31: in every state of the service the number of occupied cells of the
\* board equals the number of place requests answered 200 since startup or
\* the last reset; this number never exceeds N*N, and a place request with
\* a column in 1..N made when it is N*N is answered 503 and changes nothing.
C31_GameBounded ==
    /\ Occupied(game_state) = hist.placed
    /\ hist.placed <= BOARD_SIZE * BOARD_SIZE
    /\ (/\ last.op = "place"
        /\ last.column \in 1 .. BOARD_SIZE
        /\ Occupied(prev) = BOARD_SIZE * BOARD_SIZE)
       => /\ last.status = 503
          /\ game_state = prev

\* the sixteenth place request was answered 200 and filled the board without
\* a winner; or a request with a valid column was made on the board holding
\* sixteen markers
C31_Witness ==
    /\ last.op = "place"
    /\ last.column \in 1 .. BOARD_SIZE
    /\ hist.placed = BOARD_SIZE * BOARD_SIZE
    /\ Occupied(prev) = BOARD_SIZE * BOARD_SIZE
    /\ last.status = 503

\* the board whose cell (row, col) shows the boolean that generator g gives
\* as its (row * N + col)-th next draw
BoardOfNextDraws(g) ==
    [row \in Idx |-> [col \in Idx |->
        IF Stream(g.seed, g.index + row * BOARD_SIZE + col) THEN Cookie ELSE Milk]]

\* C33: a random-board request leaves the generator exactly N*N draws
\* further on, having used one draw per cell, row by row, for the board it
\* returns; a reset request leaves it at the seeded start; a place request
\* (answered 200, 400 or 503) and a get-board request leave it as it was.
C33_RngFrame ==
    /\ last.op = "random"
         => /\ rng.seed = prev_rng.seed
            /\ rng.index = prev_rng.index + BOARD_SIZE * BOARD_SIZE
            /\ last.body = to_string(BoardOfNextDraws(prev_rng))
    /\ last.op = "reset" => rng = seed_from_u64(SEED)
    /\ last.op \in {"place", "board"} => rng = prev_rng
    /\ last.op = "place" => last.status \in {200, 400, 503}

\* a second random board in a row: the generator goes from 16 to 32 draws
C33_Witness ==
    /\ last.op = "random"
    /\ prev_rng.index = BOARD_SIZE * BOARD_SIZE
    /\ rng.index = 2 * BOARD_SIZE * BOARD_SIZE

\* C34 (SpecWinner): a board built by random() has no empty cell, so
\* board_full() holds for it, and its rendering ends, after the N grid lines
\* and the border line, with exactly one status line: "<Player> wins!" or
\* "No winner.".
C34_RandomBoardFull ==
    ~hist.from_new
    => /\ \A row \in Idx, col \in Idx : game_state[row][col] \in Player
       /\ board_full(game_state)
       /\ \E r \in {to_string(game_state)} :
            /\ Len(r) = BOARD_SIZE + 2
            /\ r[BOARD_SIZE + 2] \in
                 {<<Player_to_string(Milk), " wins!">>,
                  <<Player_to_string(Cookie), " wins!">>,
                  <<"No winner.">>}

\* winner() called on a random board that has no line of four: its status
\* line is "No winner."
C34_Witness ==
    /\ ~hist.from_new
    /\ call.op = "winner" /\ call.result = None
    /\ StatusLines(to_string(game_state)) = << <<"No winner.">> >>

\* C16: a random-board request leaves the session board as it was: the board
\* it generates and returns is not stored, and a get-board answered right
\* after it returns the text a get-board right before it would have returned.
C16_RandomBoardNotStored ==
    last.op = "random"
    => /\ game_state = prev
       /\ board(Session(game_state, rng)).body = board(Session(prev, prev_rng)).body
       /\ last.body = to_string(Connect4_random(prev_rng).board)

\* a random board returned while a game is under way: the text returned is
\* not the text of the session board
C16_Witness ==
    /\ last.op = "random" /\ last.status = 200
    /\ Occupied(prev) > 0 /\ ~Terminal(prev)
    /\ last.body # to_string(game_state)
    /\ rng # prev_rng

\* ------------------------------------------------------------------------
\* SpecConc: requests served concurrently.  Every handler first awaits the
\* lock (read() in board, write() in the others), runs its body while it
\* holds the guard, and drops the guard when it returns.  tokio's RwLock
\* queues the waiting tasks first-in first-out.
\* ------------------------------------------------------------------------
\* accepted moves and random boards explored under concurrency
MaxConcMoves == 2

MaxConcRandom == 1

\* path columns used by concurrent place requests
ConcColumns == {0, 1}

\* (mutant) place awaiting read() instead of write()
LockMode_place_reads(op) == IF op \in {"board", "place"} THEN "read" ELSE "write"

\* (mutant) random_board awaiting read() instead of write()
LockMode_random_reads(op) == IF op \in {"board", "random"} THEN "read" ELSE "write"

\* (mutant) reset awaiting read() instead of write()
LockMode_reset_reads(op) == IF op \in {"board", "reset"} THEN "read" ELSE "write"

\* the guard each handler awaits
LockMode(op) == IF op = "board" THEN "read" ELSE "write"

\* (mutant) a lock that admits one holder at a time, reader or writer
CanAcquire_one_holder(lk, mode) == lk.writer = 0 /\ lk.readers = {}

\* (mutant) a lock that admits readers while a writer holds it
CanAcquire_reader_ignores_writer(lk, mode) ==
    IF mode = "read" THEN TRUE
    ELSE lk.writer = 0 /\ lk.readers = {}

\* RwLock: a reader enters when no writer holds the lock, a writer when
\* nobody holds it
CanAcquire(lk, mode) ==
    IF mode = "read" THEN lk.writer = 0
    ELSE lk.writer = 0 /\ lk.readers = {}

Acquired(lk, p, mode) ==
    [writer  |-> IF mode = "write" THEN p ELSE lk.writer,
     readers |-> IF mode = "read" THEN lk.readers \cup {p} ELSE lk.readers,
     queue   |-> Tail(lk.queue)]

\* (mutant) a return path that leaves the write guard held
Released_keeps_writer(lk, p) ==
    [lk EXCEPT !.readers = @ \ {p}]

\* dropping the guard
Released(lk, p) ==
    [lk EXCEPT !.writer = IF @ = p THEN 0 ELSE @, !.readers = @ \ {p}]

InFlight(op) == Cardinality({p \in Procs : task[p].op = op})

ConcInit ==
    /\ game_state = RouterState_new.game_state
    /\ rng = RouterState_new.rng
    /\ prev = game_state
    /\ prev_rng = rng
    /\ call = NoCall
    /\ last = NoRequest
    /\ hist = NoHist
    /\ ConcIdle

\* a request arrives: its handler starts and awaits the lock
Start(p, op, player, column) ==
    /\ task[p].pc = "idle"
    /\ op = "place" => Occupied(game_state) + InFlight("place") < MaxConcMoves
    /\ op = "random" =>
         (rng.index \div (BOARD_SIZE * BOARD_SIZE)) + InFlight("random") < MaxConcRandom
    /\ task' = [task EXCEPT ![p] =
                   [NoTask EXCEPT !.op = op, !.player = player, !.column = column,
                                  !.pc = "waiting"]]
    /\ lock' = [lock EXCEPT !.queue = Append(@, p)]
    /\ UNCHANGED <<game_state, rng, stable, histVars>>

\* (mutant) a lock that wakes any of its waiters, not the longest waiting
Acquire_any_waiter(p) ==
    /\ task[p].pc = "waiting"
    /\ \E k \in 1 .. Len(lock.queue) :
         /\ lock.queue[k] = p
         /\ CanAcquire(lock, LockMode(task[p].op))
         /\ lock' = [Acquired(lock, p, LockMode(task[p].op)) EXCEPT
                        !.queue = SubSeq(lock.queue, 1, k - 1)
                                    \o SubSeq(lock.queue, k + 1, Len(lock.queue))]
    /\ task' = [task EXCEPT ![p].pc = "locked"]
    /\ UNCHANGED <<game_state, rng, stable, histVars>>

\* the await of read() or write() completes
Acquire(p) ==
    /\ task[p].pc = "waiting"
    /\ lock.queue # << >> /\ Head(lock.queue) = p
    /\ CanAcquire(lock, LockMode(task[p].op))
    /\ lock' = Acquired(lock, p, LockMode(task[p].op))
    /\ task' = [task EXCEPT ![p].pc = "locked"]
    /\ UNCHANGED <<game_state, rng, stable, histVars>>

\* a handler returns its response; its guard is dropped.  The response is
\* recorded in `last`, with the session the last finished writer left
\* (prev, prev_rng).
Return(p, status, body) ==
    /\ task' = [task EXCEPT ![p] = NoTask]
    /\ lock' = Released(lock, p)
    /\ last' = [op |-> task[p].op, player |-> task[p].player, column |-> task[p].column,
                status |-> status, body |-> body]
    /\ prev' = stable.game_state
    /\ prev_rng' = stable.rng
    /\ UNCHANGED <<call, hist>>

\* board: render and return
BoardRespond(p) ==
    /\ task[p].op = "board" /\ task[p].pc = "locked"
    /\ Return(p, 200, to_string(game_state))
    /\ UNCHANGED <<game_state, rng, stable>>

\* reset: state.game_state.reset()
ResetClear(p) ==
    /\ task[p].op = "reset" /\ task[p].pc = "locked"
    /\ game_state' = Connect4_reset(game_state)
    /\ task' = [task EXCEPT ![p].pc = "cleared"]
    /\ UNCHANGED <<rng, lock, stable, histVars>>

\* reset: state.rng = StdRng::seed_from_u64(2024)
ResetReseed(p) ==
    /\ task[p].op = "reset" /\ task[p].pc = "cleared"
    /\ rng' = seed_from_u64(SEED)
    /\ task' = [task EXCEPT ![p].pc = "reseeded"]
    /\ UNCHANGED <<game_state, lock, stable, histVars>>

\* reset: render and return
ResetRespond(p) ==
    /\ task[p].op = "reset" /\ task[p].pc = "reseeded"
    /\ Return(p, 200, to_string(game_state))
    /\ stable' = Session(game_state, rng)
    /\ UNCHANGED <<game_state, rng>>

\* (mutant) place testing for a finished game before it looks at the column
PlaceCheck_after_terminal(p) ==
    /\ task[p].op = "place" /\ task[p].pc = "locked"
    /\ IF board_full(game_state) \/ winner(game_state) # None
       THEN /\ Return(p, 503, to_string(game_state))
            /\ stable' = Session(game_state, rng)
            /\ UNCHANGED <<game_state, rng>>
       ELSE IF ~(task[p].column \in 1 .. BOARD_SIZE)
       THEN /\ Return(p, 400, << >>)
            /\ stable' = Session(game_state, rng)
            /\ UNCHANGED <<game_state, rng>>
       ELSE /\ task' = [task EXCEPT ![p].pc = "checked"]
            /\ UNCHANGED <<game_state, rng, lock, stable, histVars>>

\* place: the range check on the path column; 400 at once if it fails
PlaceCheck(p) ==
    /\ task[p].op = "place" /\ task[p].pc = "locked"
    /\ IF ~(task[p].column \in 1 .. BOARD_SIZE)
       THEN /\ Return(p, 400, << >>)
            /\ stable' = Session(game_state, rng)
            /\ UNCHANGED <<game_state, rng>>
       ELSE /\ task' = [task EXCEPT ![p].pc = "checked"]
            /\ UNCHANGED <<game_state, rng, lock, stable, histVars>>

\* place: column - 1 is computed; the blocked-move checks, then play(); a
\* refused request returns at once
PlaceBody(p) ==
    /\ task[p].op = "place" /\ task[p].pc = "checked"
    /\ \E r \in {place(Session(game_state, rng), task[p].player, task[p].column)} :
         IF r.status = 200
         THEN /\ game_state' = r.game_state
              /\ task' = [task EXCEPT ![p].pc = "played",
                                      ![p].index = <<task[p].column - 1>>]
              /\ UNCHANGED <<rng, lock, stable, histVars>>
         ELSE /\ Return(p, r.status, r.body)
              /\ stable' = Session(game_state, rng)
              /\ UNCHANGED <<game_state, rng>>

\* place: render the board after the move and return
PlaceRespond(p) ==
    /\ task[p].op = "place" /\ task[p].pc = "played"
    /\ Return(p, 200, to_string(game_state))
    /\ stable' = Session(game_state, rng)
    /\ UNCHANGED <<game_state, rng>>

\* random_board: Connect4::random(&mut state.rng)
RandomGenerate(p) ==
    /\ task[p].op = "random" /\ task[p].pc = "locked"
    /\ \E r \in {Connect4_random(rng)} :
         /\ rng' = r.rng
         /\ task' = [task EXCEPT ![p].pc = "generated", ![p].local = r.board]
    /\ UNCHANGED <<game_state, lock, stable, histVars>>

\* random_board: render the synthetic board and return
RandomRespond(p) ==
    /\ task[p].op = "random" /\ task[p].pc = "generated"
    /\ Return(p, 200, to_string(task[p].local))
    /\ stable' = Session(game_state, rng)
    /\ UNCHANGED <<game_state, rng>>

ConcNext ==
    \E p \in Procs :
        \/ Start(p, "board", None, 0)
        \/ Start(p, "reset", None, 0)
        \/ \E player \in Player, column \in ConcColumns : Start(p, "place", player, column)
        \/ Start(p, "random", None, 0)
        \/ Acquire(p)
        \/ BoardRespond(p)
        \/ ResetClear(p)
        \/ ResetReseed(p)
        \/ ResetRespond(p)
        \/ PlaceCheck(p)
        \/ PlaceBody(p)
        \/ PlaceRespond(p)
        \/ RandomGenerate(p)
        \/ RandomRespond(p)

SpecConc == ConcInit /\ [][ConcNext]_vars

\* a step of the handler serving client p: everything but the arrival of
\* its request
HandlerStep(p) ==
    \/ Acquire(p)
    \/ BoardRespond(p)
    \/ ResetClear(p)
    \/ ResetReseed(p)
    \/ ResetRespond(p)
    \/ PlaceCheck(p)
    \/ PlaceBody(p)
    \/ PlaceRespond(p)
    \/ RandomGenerate(p)
    \/ RandomRespond(p)

\* SpecConcFair: the tokio runtime polls every task that can make progress,
\* and the RwLock wakes its waiters in queue order, so a handler that stays
\* able to take its next step takes it.  Requests need not keep arriving.
ConcFairness == \A p \in Procs : WF_vars(HandlerStep(p))

SpecConcFair == ConcInit /\ [][ConcNext]_vars /\ ConcFairness

\* ------------------------------------------------------------------------
\* Claims about concurrent requests
\* ------------------------------------------------------------------------
\* the handler of p holds its guard: it is between the end of its await and
\* its return
InCS(p) == task[p].pc \notin {"idle", "waiting"}

Mutating(p) == task[p].op \in {"place", "reset", "random"}

\* C8: two handlers are inside their critical sections at the same time
\* only if both are get-board readers: a mutating handler is alone.
C8_WritersExclusive ==
    \A p \in Procs, q \in Procs :
        (p # q /\ InCS(p) /\ InCS(q)) => (~Mutating(p) /\ ~Mutating(q))

\* a mutating handler inside while another mutating request waits for the lock
C8_Witness ==
    \E p \in Procs, q \in Procs :
        /\ InCS(p) /\ Mutating(p) /\ game_state # stable.game_state
        /\ task[q].pc = "waiting" /\ Mutating(q)

\* C9: the text a get-board request returns is the rendering of the board
\* as the last finished mutating request left it (or as it was at startup),
\* never of a board a mutating request is still working on.
C9_ReadsSeeWholeWrites ==
    last.op = "board" => last.body = to_string(prev)

\* a get-board answered, with a move on the board, while a write request waits
C9_Witness ==
    /\ last.op = "board" /\ Occupied(prev) > 0
    /\ \E q \in Procs : task[q].pc = "waiting" /\ Mutating(q)

\* C10: while a reset has cleared the board and not yet reseeded the
\* generator, no other handler is inside its critical section; and once the
\* reset has reseeded, the board is the cleared one.
C10_ResetAtomic ==
    \A p \in Procs :
        /\ task[p].pc = "cleared" =>
              /\ game_state = Connect4_new
              /\ \A q \in Procs : q # p => ~InCS(q)
        /\ task[p].pc = "reseeded" =>
              /\ game_state = Connect4_new /\ rng = seed_from_u64(SEED)
              /\ \A q \in Procs : q # p => ~InCS(q)

\* a reset between its two writes, on a session with moves and draws made,
\* while another request waits
C10_Witness ==
    \E p \in Procs, q \in Procs :
        /\ task[p].pc = "cleared" /\ rng # seed_from_u64(SEED)
        /\ Occupied(stable.game_state) > 0
        /\ task[q].pc = "waiting"

\* C11: a place request whose column is outside 1..N is answered 400
\* with an empty body, without its handler ever waiting for or holding the
\* session lock.
C11_InvalidColumnSkipsLock ==
    /\ \A p \in Procs :
         (task[p].op = "place" /\ task[p].column \notin 1 .. BOARD_SIZE)
         => task[p].pc \notin {"waiting", "locked"}
    /\ (last.op = "place" /\ last.column \notin 1 .. BOARD_SIZE)
       => last.status = 400 /\ last.body = << >>

\* a place request with column 0 queued behind a reset that holds the lock
C11_Witness ==
    \E p \in Procs, q \in Procs :
        /\ task[p].op = "place" /\ task[p].column \notin 1 .. BOARD_SIZE
        /\ task[p].pc = "waiting"
        /\ task[q].op = "reset" /\ InCS(q)

\* the requests queued for the lock ahead of client p
AheadInQueue(p) ==
    {lock.queue[k] : k \in {j \in 1 .. Len(lock.queue) :
                               \E i \in (j + 1) .. Len(lock.queue) : lock.queue[i] = p}}

\* C23: get-board takes the lock in shared mode.  A get-board request that
\* waits while no writer holds the lock and no writer is queued ahead of it is
\* not held back by the get-board requests inside their critical sections or
\* ahead of it: the first of them in the queue can enter at once, whoever
\* reads already.  (All clients reading at the same time: C23_Witness.)
C23_ReadersShare ==
    \A p \in Procs :
        (/\ task[p].op = "board" /\ task[p].pc = "waiting"
         /\ lock.writer = 0
         /\ \A q \in AheadInQueue(p) : task[q].op = "board")
        => /\ ENABLED Acquire(Head(lock.queue))
           /\ Head(lock.queue) = p => Acquired(lock, p, "read").readers = lock.readers \cup {p}

\* every client is inside the critical section of a get-board at the same time
C23_Witness ==
    /\ \A p \in Procs : task[p].op = "board" /\ InCS(p)
    /\ lock.readers = Procs

\* ------------------------------------------------------------------------
\* SpecPlace: one place request of one client followed statement by
\* statement, on each board of a game: up to MaxGame moves made, somewhere
\* along the opening, or one move off the opening (where games are won).
\* ------------------------------------------------------------------------
GameBoards ==
    PlayedBoards(MaxGame) \cup OpeningBoards
    \cup {play(b, p, c).board : b \in OpeningBoards, p \in Player, c \in Idx}
    \cup {b \in DrawnGameBoards : board_full(b)}

\* the client whose request is followed
Client == CHOOSE p \in Procs : \A q \in Procs : p <= q

PlaceInit ==
    /\ game_state \in GameBoards
    /\ rng = seed_from_u64(SEED)
    /\ prev = game_state
    /\ prev_rng = rng
    /\ call = NoCall
    /\ last = NoRequest
    /\ hist = NoHist
    /\ task = [p \in Procs |-> NoTask]
    /\ lock = Unlocked
    /\ stable = Session(game_state, rng)

\* the request arrives: its handler starts and awaits the lock
PlaceArrive(player, column) ==
    /\ last = NoRequest
    /\ \A q \in Procs : task[q].pc = "idle"
    /\ task' = [task EXCEPT ![Client] =
                   [NoTask EXCEPT !.op = "place", !.player = player, !.column = column,
                                  !.pc = "waiting"]]
    /\ lock' = [lock EXCEPT !.queue = Append(@, Client)]
    /\ UNCHANGED <<game_state, rng, stable, histVars>>

PlaceNext ==
    \/ \E player \in Player, column \in PathColumns : PlaceArrive(player, column)
    \/ Acquire(Client)
    \/ PlaceCheck(Client)
    \/ PlaceBody(Client)
    \/ PlaceRespond(Client)

SpecPlace == PlaceInit /\ [][PlaceNext]_vars

\* the board b after player p's marker dropped into 0-based column c
Dropped(b, p, c) ==
    LET row == CHOOSE r \in Idx :
                  /\ b[r][c] = None
                  /\ \A below \in Idx : below > r => b[below][c] # None
    IN  [b EXCEPT ![row][c] = p]

\* a place request with a column in 1..N answered on a board that is not
\* terminal and has room in the column
PlayablePlace ==
    /\ last.op = "place" /\ last.column \in 1 .. BOARD_SIZE
    /\ ~Terminal(prev) /\ HasEmptyCell(prev, last.column - 1)

\* the answer to it: 200, and the board differs from the prior board in
\* exactly one cell, the lowest empty cell of column k - 1, which holds p
PlacedOneMarker ==
    /\ last.status = 200
    /\ game_state = Dropped(prev, last.player, last.column - 1)
    /\ Cardinality({rc \in Idx \X Idx : game_state[rc[1]][rc[2]] # prev[rc[1]][rc[2]]}) = 1
    /\ last.body = to_string(game_state)

\* C15 (as stated): such a request is answered 200 and puts p's marker in
\* the lowest empty cell of column k - 1, changing no other cell; and the
\* handler has converted the path column to its 0-based index by the time
\* it has validated it.
C15_ConvertedBeforeValidated ==
    /\ PlayablePlace => PlacedOneMarker
    /\ \A p \in Procs :
         (task[p].op = "place" /\ task[p].pc = "checked")
         => task[p].index = <<task[p].column - 1>>

\* C15 (amended): such a request is answered 200 and puts p's marker in the
\* lowest empty cell of column k - 1, changing no other cell; the handler
\* validates the 1-based path column as it came, and computes the 0-based
\* index k - 1 only after the validation has passed.
C15_ValidatedBeforeConverted ==
    /\ PlayablePlace => PlacedOneMarker
    /\ \A p \in Procs :
         /\ (task[p].op = "place" /\ task[p].pc \in {"waiting", "locked"})
            => task[p].index = << >>
         /\ (task[p].op = "place" /\ task[p].pc = "checked")
            => task[p].column \in 1 .. BOARD_SIZE /\ task[p].index = << >>
         /\ (task[p].op = "place" /\ task[p].pc = "played")
            => task[p].index = <<task[p].column - 1>> /\ task[p].index[1] \in Idx

\* path column N accepted for Cookie on top of a marker: 0-based column N-1
C15_Witness ==
    /\ PlayablePlace /\ last.status = 200
    /\ last.column = BOARD_SIZE /\ last.player = Cookie
    /\ prev[BOARD_SIZE - 1][BOARD_SIZE - 1] # None
    /\ game_state # prev

\* C32: a place request whose path column is outside 1..N is answered 400
\* with an empty body and changes neither board nor generator, on every
\* board, a full board and a board with a winner included (never 503); and
\* its handler never computes column - 1: it returns from the range check.
C32_RangeCheckFirst ==
    /\ (last.op = "place" /\ ~(last.column \in 1 .. BOARD_SIZE))
       => /\ last.status = 400
          /\ last.body = << >>
          /\ game_state = prev
          /\ rng = prev_rng
    /\ \A p \in Procs :
         (task[p].op = "place" /\ ~(task[p].column \in 1 .. BOARD_SIZE))
         => /\ task[p].pc \in {"waiting", "locked"}
            /\ task[p].index = << >>

\* column 0 answered on a full board
C32_Witness ==
    /\ last.op = "place" /\ last.column = 0
    /\ board_full(prev)
    /\ last.status = 400

\* C35: mutating requests are served in the order in which they started to
\* wait for the lock.  In every step, a mutating request that stops waiting
\* (its write() completes) has no mutating request ahead of it in the queue,
\* i.e. none that started to wait before it and still waits; and the board
\* or the generator changes only in a step of the request that holds the
\* write guard, while every other mutating request in flight is waiting.
\* Hence the mutation of a request is applied before that of any mutating
\* request that started to wait after it.
C35_MutationsInArrivalOrder ==
    [][/\ \A p \in Procs :
            (Mutating(p) /\ task[p].pc = "waiting" /\ task'[p].pc # "waiting")
            => \A q \in AheadInQueue(p) : ~Mutating(q)
       /\ (game_state' # game_state \/ rng' # rng)
            => \E p \in Procs :
                 /\ Mutating(p) /\ lock.writer = p /\ lock'.writer = p
                 /\ \A q \in Procs \ {p} : Mutating(q) => task[q].pc = "waiting"]_vars

\* a place request has put its marker on the board and not returned yet,
\* while a reset request that started to wait after it is still waiting
C35_Witness ==
    \E p \in Procs, q \in Procs :
        /\ task[p].op = "place" /\ task[p].pc = "played"
        /\ game_state # stable.game_state
        /\ task[q].op = "reset" /\ task[q].pc = "waiting"
        /\ lock.writer = p /\ lock.queue = <<q>>

\* ------------------------------------------------------------------------
\* Claims about progress (SpecConcFair)
\* ------------------------------------------------------------------------
\* the one lock is held only by handlers inside their critical sections, in
\* the mode they asked for; nobody holds it twice or waits for it twice; a
\* client without a request in flight neither holds nor awaits it
LockHeldByHandlers ==
    /\ \A p \in Procs :
         /\ lock.writer = p => (InCS(p) /\ Mutating(p) /\ lock.readers = {})
         /\ p \in lock.readers => (InCS(p) /\ task[p].op = "board" /\ lock.writer = 0)
         /\ InCS(p) => (IF Mutating(p) THEN lock.writer = p ELSE p \in lock.readers)
         /\ Cardinality({k \in 1 .. Len(lock.queue) : lock.queue[k] = p})
              = (IF task[p].pc = "waiting" THEN 1 ELSE 0)
    /\ lock.writer \in Procs \cup {0}

\* some handler can take a step whenever a request is in flight
SomeHandlerCanStep ==
    (\E p \in Procs : task[p].pc # "idle") => (\E p \in Procs : ENABLED HandlerStep(p))

\* C22: the session store has no deadlock.  The lock is held only by
\* handlers inside their critical sections and never twice; whenever a
\* request is in flight some handler can take a step; and under fair
\* scheduling every request that has started returns its response (200, 400
\* or 503), releasing the lock.
C22_NoDeadlock ==
    /\ [](LockHeldByHandlers /\ SomeHandlerCanStep)
    /\ \A p \in Procs : (task[p].pc # "idle") ~> (task[p].pc = "idle")

\* a write request waiting while another writer, its move made, holds the lock
C22_Witness ==
    \E p \in Procs, q \in Procs :
        /\ task[p].pc = "waiting" /\ Mutating(p)
        /\ lock.writer = q /\ task[q].pc = "played"

\* ------------------------------------------------------------------------
\* Claims about what concurrent writers return (SpecConc)
\* ------------------------------------------------------------------------
\* C30: the body of a 200 response to place, and to reset, is the rendering
\* of the board as that request left it.  Between a handler's mutation and
\* its rendering the board is the one found under the lock with that
\* mutation applied, and no other handler is inside its critical section.
C30_WritersRenderOwnBoard ==
    /\ \A p \in Procs :
         /\ task[p].pc = "played"
            => /\ game_state =
                    Dropped(stable.game_state, task[p].player, task[p].column - 1)
               /\ \A q \in Procs : q # p => ~InCS(q)
         /\ (task[p].op = "reset" /\ task[p].pc \in {"cleared", "reseeded"})
            => /\ game_state = Connect4_new
               /\ \A q \in Procs : q # p => ~InCS(q)
    /\ (last.op = "place" /\ last.status = 200)
       => last.body = to_string(Dropped(prev, last.player, last.column - 1))
    /\ last.op = "reset"
       => last.status = 200 /\ last.body = to_string(Connect4_new)

\* a second move answered 200 while another write request waits for the lock
C30_Witness ==
    /\ last.op = "place" /\ last.status = 200
    /\ Occupied(prev) > 0
    /\ last.body = to_string(game_state)
    /\ \E q \in Procs : task[q].pc = "waiting" /\ Mutating(q)

\* ------------------------------------------------------------------------
\* Claims about whose move it is (Spec)
\* ------------------------------------------------------------------------
\* C36: no turn order is enforced.  In every state of the service whose
\* board is not terminal, a place request of either player into any column
\* that is not full is accepted (200, the player's marker dropped into the
\* column), whoever made the moves before; and every such request that was
\* made was answered so.  One player can move any number of times in a row.
C36_NoTurnOrder ==
    /\ ~Terminal(game_state)
       => \A player \in Player, column \in 1 .. BOARD_SIZE :
            ~column_full(game_state, column - 1)
            => \E r \in {place(Session(game_state, rng), player, column)} :
                 /\ r.status = 200
                 /\ r.game_state = Dropped(game_state, player, column - 1)
    /\ (/\ last.op = "place" /\ last.column \in 1 .. BOARD_SIZE
        /\ ~Terminal(prev) /\ ~column_full(prev, last.column - 1))
       => /\ last.status = 200
          /\ game_state = Dropped(prev, last.player, last.column - 1)

\* the third accepted move since startup or reset, all three by Milk
C36_Witness ==
    /\ last.op = "place" /\ last.status = 200 /\ last.player = Milk
    /\ hist.placed = 3
    /\ OnlyMarkersOf(prev, Milk, 2)
    /\ OnlyMarkersOf(game_state, Milk, 3)

\* ------------------------------------------------------------------------
\* Claims about the tests place makes before a move (SpecWinner)
\* ------------------------------------------------------------------------
\* C37: on every board, board_full() implies column_full(c) for every
\* column c < N; so place answers a request with a column in 1..N by 503
\* exactly when column_full(column - 1) holds or winner() is Some: the
\* board_full() test never decides.  (The boards random() can return are
\* all the full boards there are.)
C37_BoardFullTestRedundant ==
    /\ board_full(game_state)
       => \A c \in Idx : column_full(game_state, c)
    /\ \A player \in Player, column \in 1 .. BOARD_SIZE :
         \E r \in {place(Session(game_state, rng), player, column)} :
            (r.status = 503)
            <=> (column_full(game_state, column - 1) \/ winner(game_state) # None)

\* a full board without a winner: place answers 503 for every column, and
\* every column is full
C37_Witness ==
    /\ board_full(game_state)
    /\ call.op = "winner" /\ call.result = None
    /\ \A column \in 1 .. BOARD_SIZE :
         /\ column_full(game_state, column - 1)
         /\ place(Session(game_state, rng), Milk, column).status = 503

====
